---- MODULE Spec2Model ----
(***************************************************************************)
(* A model of src/mcp/server/server.py: the MSSQL tool service.            *)
(*                                                                         *)
(* One tool invocation is modelled as the sequence of steps the handler    *)
(* takes: validate the table reference, get_connection(), enter the `with` *)
(* block, cursor.execute(), fetch and shape the result, conn.commit()      *)
(* (run_query only), leave the `with` block, and either return the value   *)
(* or run the handler's `except Exception` clause.                         *)
(*                                                                         *)
(* Text is a sequence of one-character strings, so that re.match and       *)
(* str.replace are computed character by character as Python does.        *)
(*                                                                         *)
(* The driver (pyodbc) is the environment: each call into it may raise,    *)
(* and what a statement yields is chosen nondeterministically.  Two facts  *)
(* about pyodbc are used, both from its documentation: connect() opens a   *)
(* connection with autocommit off, and Connection.__exit__ ends the        *)
(* transaction (commit when the block left normally, rollback when it left *)
(* with an exception) and does not close the connection.                   *)
(***************************************************************************)
EXTENDS Integers, Sequences, FiniteSets, TLC

\* ------------------------------------------------------------ bounds
\* Longest table reference the model enumerates.
MaxLen == 3
\* Largest number of rows in a table of the modelled database.
MaxTableRows == 102

\* ------------------------------------------------- program constants
\* preview_table: "SELECT TOP 100 * FROM ..."
PreviewCap == 100

\* ------------------------------------------------------------- text
\* Representatives of the four ranges of the class [a-zA-Z0-9_].
WordChars == {"a", "Z", "7", "_"}
\* Representatives of the characters outside [a-zA-Z0-9_.].
OtherChars == {" ", ";", "'", "[", "]", "-", "\n"}
Alphabet == WordChars \cup {"."} \cup OtherChars
Strings == UNION {[1..n -> Alphabet] : n \in 0..MaxLen}

\* Python's None, as a text no table reference can equal.
None == <<"None">>

\* The positions p > i such that s[i..p-1] is a non-empty run matched by
\* [a-zA-Z0-9_]+ (every place the greedy run may stop after backtracking).
SegmentEnds(s, i) ==
  {p \in (i + 1)..(Len(s) + 1) : \A k \in i..(p - 1) : s[k] \in WordChars}

\* Python's `$` without re.MULTILINE: the end of the string, or just before
\* a newline that is the last character of the string.
AtDollar(s, p) ==
  \/ p = Len(s) + 1
  \/ p = Len(s) /\ s[p] = "\n"

\* re.match(r'^[a-zA-Z0-9_]+(\.[a-zA-Z0-9_]+)?$', name)
ReMatch(s) ==
  \E p \in SegmentEnds(s, 1) :
    \/ AtDollar(s, p)
    \/ /\ p <= Len(s)
       /\ s[p] = "."
       /\ \E q \in SegmentEnds(s, p + 1) : AtDollar(s, q)

RECURSIVE ReplaceDotsBare(_)
\* A replace that drops the brackets around the separator: '.' stays '.'.
ReplaceDotsBare(s) ==
  IF s = <<>> THEN <<>> ELSE <<Head(s)>> \o ReplaceDotsBare(Tail(s))

RECURSIVE ReplaceDots(_)
\* name.replace('.', '].[')
ReplaceDots(s) ==
  IF s = <<>> THEN <<>>
  ELSE (IF Head(s) = "." THEN <<"]", ".", "[">> ELSE <<Head(s)>>)
         \o ReplaceDots(Tail(s))

\* f"[{name.replace('.', '].[')}]"
Quote(s) == <<"[">> \o ReplaceDots(s) \o <<"]">>

\* f"Invalid table name: {name}"
InvalidNameMessage(s) == <<"Invalid table name: ">> \o s

RECURSIVE LastSegment(_)
\* table_name.split('.')[-1]
LastSegment(s) ==
  IF s = <<>> THEN <<>>
  ELSE IF s[Len(s)] = "." THEN <<>>
  ELSE LastSegment(SubSeq(s, 1, Len(s) - 1)) \o <<s[Len(s)]>>

\* ----------------------------------------------------------- handlers
TableHandlers == {"preview_table", "describe_table", "get_table_count"}
Handlers == {"list_tables", "run_query"} \cup TableHandlers

\* The SQL texts run_query is invoked with.
Queries == {<<"SELECT 1">>, <<"UPDATE t SET x=1">>, <<"EXEC p">>,
            <<"UPDATE t SET x=1 OUTPUT inserted.x">>}

\* The arguments a handler may be invoked with.
Arguments(h) ==
  IF h \in TableHandlers THEN Strings
  ELSE IF h = "run_query" THEN Queries
  ELSE {<<>>}

\* ------------------------------------------------------------- state
VARIABLES
  pc,            \* where the current invocation stands
  handler,       \* the tool being invoked
  arg,           \* its argument: table_name, query, or <<>> for list_tables
  safe_name,     \* validate_table_name's result, None before it returns
  conn,          \* the connection: "none", "open" or "closed"
  connectCalls,  \* calls of get_connection() in this invocation
  cursor,        \* what the driver reports after execute
  executed,      \* the statements handed to cursor.execute
  commitCalls,   \* calls of conn.commit() made by the handler
  endTran,       \* how Connection.__exit__ ended the transaction
  exc,           \* the exception in flight
  failStage,     \* "none", "validation" or "execution"
  ret,           \* the value of the return statement inside the with block
  result,        \* the value the caller received
  prior          \* the last failed invocation of a table handler

vars == <<pc, handler, arg, safe_name, conn, connectCalls, cursor, executed,
          commitCalls, endTran, exc, failStage, ret, result, prior>>

\* SQL NULL in an integer column.
NullInt == -1
\* A statement without a TOP clause.
NoTop == -1

NoExc == [type |-> "none", msg |-> <<>>]
\* table_rows is not the driver's: it records the size of the table a
\* preview read from, so that a run shows what the cap cut off.
NoCursor == [description |-> None, rs |-> <<>>, rowcount |-> -1,
             table_rows |-> 0]
Pending == [pending |-> TRUE]
NoPrior == [handler |-> "none", stage |-> "none", keys |-> {}]

\* raise ValueError(f"Invalid table name: {name}")
ValueError(s) == [type |-> "ValueError", msg |-> InvalidNameMessage(s)]
\* raise ImportError("pyodbc is not installed. ...")
ImportError ==
  [type |-> "ImportError",
   msg |-> <<"pyodbc is not installed. Install it with: pip install pyodbc">>]
\* An error raised by the driver; pyodbc errors carry (sqlstate, message).
DriverError(state) == [type |-> "pyodbc.Error", msg |-> <<state>>]

\* The classes `except Exception` catches.
ExceptionClasses == {"ValueError", "ImportError", "pyodbc.Error"}

\* An except clause naming ValueError alone.
CaughtValueErrorOnly(type) == type = "ValueError"

\* except Exception as e
Caught(type) == type \in ExceptionClasses

\* str(e)
StrOf(e) == e.msg

\* --------------------------------------------------------- statements
\* preview_table with the row cap left out of the SQL text.
PreviewStatementNoTop(name) ==
  [kind |-> "preview", top |-> NoTop, target |-> name, text |-> <<>>]

\* f"SELECT TOP 100 * FROM {safe_name}"
PreviewStatement(name) ==
  [kind |-> "preview", top |-> PreviewCap, target |-> name, text |-> <<>>]

\* f"SELECT COUNT(*) FROM {safe_name}"
CountStatement(name) ==
  [kind |-> "count", top |-> NoTop, target |-> name, text |-> <<>>]

\* "... FROM INFORMATION_SCHEMA.COLUMNS WHERE TABLE_NAME = ? ...", table_only
DescribeStatement(name) ==
  [kind |-> "describe", top |-> NoTop, target |-> LastSegment(name),
   text |-> <<>>]

\* "SELECT TABLE_NAME FROM INFORMATION_SCHEMA.TABLES WHERE ..."
ListStatement ==
  [kind |-> "list", top |-> NoTop, target |-> <<>>, text |-> <<>>]

\* cursor.execute(query): the caller's text, verbatim
RawStatement(query) ==
  [kind |-> "raw", top |-> NoTop, target |-> <<>>, text |-> query]

\* The statement each handler hands to cursor.execute.
Statement(h, a, safe) ==
  CASE h = "list_tables" -> ListStatement
    [] h = "preview_table" -> PreviewStatement(safe)
    [] h = "describe_table" -> DescribeStatement(a)
    [] h = "get_table_count" -> CountStatement(safe)
    [] OTHER -> RawStatement(a)

\* ------------------------------------------------------------- driver
Min(a, b) == IF a < b THEN a ELSE b
Rows(n) == [i \in 1..n |-> <<i>>]

\* Rows of INFORMATION_SCHEMA.COLUMNS the driver may return.
ColumnRows ==
  {<<>>,
   << [name |-> <<"id">>, type |-> <<"int">>, is_nullable |-> <<"NO">>,
       default |-> None, max_length |-> NullInt],
      [name |-> <<"name">>, type |-> <<"varchar">>, is_nullable |-> <<"YES">>,
       default |-> <<"('')">>, max_length |-> 50] >>}

\* Whether a statement yields a result set is the driver's to say: a
\* procedure call may or may not, an UPDATE with OUTPUT does.
RawResults(text) ==
  CASE text = <<"SELECT 1">> ->
         {[description |-> <<"">>, rs |-> Rows(1), rowcount |-> -1, table_rows |-> 0]}
    [] text = <<"UPDATE t SET x=1">> ->
         {[description |-> None, rs |-> <<>>, rowcount |-> k, table_rows |-> 0] : k \in 0..2}
    [] text = <<"EXEC p">> ->
         {[description |-> None, rs |-> <<>>, rowcount |-> 1, table_rows |-> 0],
          [description |-> <<"x">>, rs |-> Rows(2), rowcount |-> -1, table_rows |-> 0]}
    [] OTHER ->
         {[description |-> <<"x">>, rs |-> Rows(k), rowcount |-> -1, table_rows |-> 0] :
            k \in 0..2}

\* The sizes of the tables of the modelled database: empty, one row, and
\* around the preview cap.
TableSizes ==
  {0, 1, PreviewCap - 1, PreviewCap, PreviewCap + 1, MaxTableRows}

\* What cursor.execute(stmt) may leave in the cursor when it succeeds.  A
\* SELECT TOP k over a table of n rows yields min(k, n) rows.
DriverResults(stmt) ==
  CASE stmt.kind = "list" ->
         {[description |-> <<"TABLE_NAME">>, rs |-> t, rowcount |-> -1, table_rows |-> 0] :
            t \in {<<>>, << <<"Users">> >>, << <<"Users">>, <<"Orders">> >>}}
    [] stmt.kind = "preview" ->
         {[description |-> <<"id">>,
           rs |-> Rows(IF stmt.top = NoTop THEN n ELSE Min(stmt.top, n)),
           rowcount |-> -1, table_rows |-> n] : n \in TableSizes}
    [] stmt.kind = "describe" ->
         {[description |-> <<"COLUMN_NAME">>, rs |-> c, rowcount |-> -1, table_rows |-> 0] :
            c \in ColumnRows}
    [] stmt.kind = "count" ->
         {[description |-> <<"">>, rs |-> << <<n>> >>, rowcount |-> -1, table_rows |-> 0] :
            n \in {NullInt, 0, MaxTableRows}}
    [] OTHER -> RawResults(stmt.text)

\* ------------------------------------------------------ result shaping
\* describe_table's dict for one row of INFORMATION_SCHEMA.COLUMNS
DescribeColumn(col) ==
  [name |-> col.name,
   type |-> col.type,
   nullable |-> (col.is_nullable = <<"YES">>),
   default |-> (IF col.default \in {None, <<>>} THEN None ELSE col.default),
   max_length |-> (IF col.max_length \in {NullInt, 0} THEN NullInt
                   ELSE col.max_length)]

\* The value of the handler's return statement inside the with block.
Shaped(h, a, cur) ==
  CASE h = "list_tables" ->
         [tables |-> [i \in 1..Len(cur.rs) |-> cur.rs[i][1]]]
    [] h = "preview_table" ->
         [columns |-> (IF cur.description # None THEN cur.description
                       ELSE <<>>),
          rows |-> cur.rs]
    [] h = "describe_table" ->
         [table_name |-> a,
          columns |-> [i \in 1..Len(cur.rs) |-> DescribeColumn(cur.rs[i])]]
    [] h = "get_table_count" ->
         [table_name |-> a,
          row_count |-> (IF Len(cur.rs) > 0 /\ cur.rs[1][1] # NullInt
                         THEN cur.rs[1][1] ELSE 0)]
    [] OTHER ->
         [columns |-> cur.description, rows |-> cur.rs]

\* ExecResult(message=..., affected_rows=cursor.rowcount).model_dump()
ExecResult(cur) ==
  [message |-> <<"Query executed successfully">>,
   affected_rows |-> cur.rowcount]

\* A branch that reads the SQL text instead of the driver's metadata.
HasResultSetByText(cur, query) == query = <<"SELECT 1">>

\* run_query: `if cursor.description:`
HasResultSet(cur, query) == cur.description # None

\* An except clause that tags validation failures with a key of their own.
ExceptPayloadTagged(h, e) ==
  IF e.type = "ValueError" THEN [validation_error |-> StrOf(e)]
  ELSE IF h = "list_tables" THEN [tables |-> <<>>]
  ELSE [error |-> StrOf(e)]

\* An except clause that returns {"error": str(e)} in every handler.
ExceptPayloadErrorEverywhere(h, e) == [error |-> StrOf(e)]

\* An except clause that drops the message.
ExceptPayloadNoMessage(h, e) ==
  CASE h = "list_tables" -> [tables |-> <<>>]
    [] h = "preview_table" -> [columns |-> <<>>, rows |-> <<>>]
    [] OTHER -> [error |-> <<>>]

\* What each handler's except clause returns.
ExceptPayload(h, e) ==
  CASE h = "list_tables" -> [tables |-> <<>>]
    [] h = "preview_table" -> [columns |-> <<>>, rows |-> <<>>]
    [] OTHER -> [error |-> StrOf(e)]

\* ------------------------------------------------------------ actions
\* A handler that opens the connection before it validates.
FirstStepConnect(h) == "connect"

\* The first statement of the handler's try block.
FirstStep(h) == IF h \in TableHandlers THEN "validate" ELSE "connect"

\* Leaving the frame drops the last reference to the connection.  The code
\* never calls close(); whether the object's finalizer has closed it by now
\* is up to the runtime.
Finalized(c) == IF c = "open" THEN {"open", "closed"} ELSE {c}

\* The summary kept of a finished invocation.
Summary ==
  IF failStage # "none" /\ handler \in TableHandlers
  THEN [handler |-> handler, stage |-> failStage, keys |-> DOMAIN result]
  ELSE prior

Init ==
  /\ pc = "idle"
  /\ handler = "none"
  /\ arg = <<>>
  /\ safe_name = None
  /\ conn = "none"
  /\ connectCalls = 0
  /\ cursor = NoCursor
  /\ executed = <<>>
  /\ commitCalls = 0
  /\ endTran = "none"
  /\ exc = NoExc
  /\ failStage = "none"
  /\ ret = Pending
  /\ result = Pending
  /\ prior = NoPrior

\* The framework dispatches a tool call: a fresh frame for the handler.
Invoke(h, a) ==
  /\ pc = "idle"
  /\ pc' = FirstStep(h)
  /\ handler' = h
  /\ arg' = a
  /\ safe_name' = None
  /\ conn' = "none"
  /\ connectCalls' = 0
  /\ cursor' = NoCursor
  /\ executed' = <<>>
  /\ commitCalls' = 0
  /\ endTran' = "none"
  /\ exc' = NoExc
  /\ failStage' = "none"
  /\ ret' = Pending
  /\ result' = Pending
  /\ UNCHANGED prior

\* The server calls the tool a request names, with the argument it carries.
Dispatch ==
  /\ pc = "idle"
  /\ \E h \in Handlers : \E a \in Arguments(h) : Invoke(h, a)

\* safe_name = validate_table_name(table_name): the match, then the quoted
\* text or the ValueError.
validate_table_name ==
  /\ pc = "validate"
  /\ IF ReMatch(arg)
     THEN /\ safe_name' = Quote(arg)
          /\ pc' = "connect"
          /\ UNCHANGED <<exc, failStage>>
     ELSE /\ exc' = ValueError(arg)
          /\ failStage' = "validation"
          /\ pc' = "except"
          /\ UNCHANGED safe_name
  /\ UNCHANGED <<handler, arg, conn, connectCalls, cursor, executed,
                 commitCalls, endTran, ret, result, prior>>

\* with get_connection() as conn:
get_connection ==
  /\ pc = "connect"
  /\ connectCalls' = connectCalls + 1
  /\ \/ /\ conn' = "open"
        /\ pc' = "execute"
        /\ UNCHANGED <<exc, failStage>>
     \/ /\ \E e \in {ImportError, DriverError("08001")} : exc' = e
        /\ failStage' = "execution"
        /\ pc' = "except"
        /\ UNCHANGED conn
  /\ UNCHANGED <<handler, arg, safe_name, cursor, executed, commitCalls,
                 endTran, ret, result, prior>>

\* cursor = conn.cursor(); cursor.execute(...)
Execute ==
  /\ pc = "execute"
  /\ LET stmt == Statement(handler, arg, safe_name) IN
       /\ executed' = Append(executed, stmt)
       /\ \/ /\ \E c \in DriverResults(stmt) : cursor' = c
             /\ pc' = "shape"
             /\ UNCHANGED <<exc, failStage>>
          \/ /\ exc' = DriverError("42S02")
             /\ failStage' = "execution"
             /\ pc' = "exit"
             /\ UNCHANGED cursor
  /\ UNCHANGED <<handler, arg, safe_name, conn, connectCalls, commitCalls,
                 endTran, ret, result, prior>>

\* fetchall()/fetchone() and the return statement's value; in run_query the
\* branch on cursor.description.
Shape ==
  /\ pc = "shape"
  /\ \/ /\ IF handler = "run_query" /\ ~HasResultSet(cursor, arg)
           THEN pc' = "commit" /\ UNCHANGED ret
           ELSE pc' = "exit" /\ ret' = Shaped(handler, arg, cursor)
        /\ UNCHANGED <<exc, failStage>>
     \/ /\ handler # "run_query" \/ HasResultSet(cursor, arg)
        /\ exc' = DriverError("HY000")
        /\ failStage' = "execution"
        /\ pc' = "exit"
        /\ UNCHANGED ret
  /\ UNCHANGED <<handler, arg, safe_name, conn, connectCalls, cursor,
                 executed, commitCalls, endTran, result, prior>>

\* run_query: conn.commit(); return ExecResult(...)
Commit ==
  /\ pc = "commit"
  /\ commitCalls' = commitCalls + 1
  /\ \/ /\ ret' = ExecResult(cursor)
        /\ UNCHANGED <<exc, failStage>>
     \/ /\ exc' = DriverError("40001")
        /\ failStage' = "execution"
        /\ UNCHANGED ret
  /\ pc' = "exit"
  /\ UNCHANGED <<handler, arg, safe_name, conn, connectCalls, cursor,
                 executed, endTran, result, prior>>

\* Leaving the with block: Connection.__exit__ commits when the block was
\* left by return, rolls back when it was left by an exception; either call
\* may fail.  The connection stays open.
Exit ==
  /\ pc = "exit"
  /\ IF exc = NoExc
     THEN /\ endTran' = "commit"
          /\ \/ /\ pc' = "return"
                /\ UNCHANGED <<exc, failStage>>
             \/ /\ exc' = DriverError("08S01")
                /\ failStage' = "execution"
                /\ pc' = "except"
     ELSE /\ endTran' = "rollback"
          /\ pc' = "except"
          /\ \E e \in {exc, DriverError("08S01")} : exc' = e
          /\ UNCHANGED failStage
  /\ UNCHANGED <<handler, arg, safe_name, conn, connectCalls, cursor,
                 executed, commitCalls, ret, result, prior>>

\* The return statement completes: the caller receives the value.
Return ==
  /\ pc = "return"
  /\ result' = ret
  /\ pc' = "returned"
  /\ conn' \in Finalized(conn)
  /\ UNCHANGED <<handler, arg, safe_name, connectCalls, cursor, executed,
                 commitCalls, endTran, exc, failStage, ret, prior>>

\* except Exception as e: print, traceback.print_exc, return the payload.
\* An exception the clause does not catch leaves the handler.
Except ==
  /\ pc = "except"
  /\ IF Caught(exc.type)
     THEN /\ result' = ExceptPayload(handler, exc)
          /\ pc' = "returned"
     ELSE /\ pc' = "raised"
          /\ UNCHANGED result
  /\ conn' \in Finalized(conn)
  /\ UNCHANGED <<handler, arg, safe_name, connectCalls, cursor, executed,
                 commitCalls, endTran, exc, failStage, ret, prior>>

\* The handler's frame is gone and the server waits for the next call.
Done ==
  /\ pc = "returned"
  /\ pc' = "idle"
  /\ prior' = Summary
  /\ handler' = "none"
  /\ arg' = <<>>
  /\ safe_name' = None
  /\ conn' = "none"
  /\ connectCalls' = 0
  /\ cursor' = NoCursor
  /\ executed' = <<>>
  /\ commitCalls' = 0
  /\ endTran' = "none"
  /\ exc' = NoExc
  /\ failStage' = "none"
  /\ ret' = Pending
  /\ result' = Pending

Next ==
  \/ Dispatch
  \/ validate_table_name
  \/ get_connection
  \/ Execute
  \/ Shape
  \/ Commit
  \/ Exit
  \/ Return
  \/ Except
  \/ Done

Spec == Init /\ [][Next]_vars

\* ------------------------------------------------------------ claims
\* The shape 'name' or 'schema.name', stated on the segments between dots
\* rather than by the regular expression.
RECURSIVE SplitDots(_)
SplitDots(s) ==
  IF \A i \in 1..Len(s) : s[i] # "." THEN <<s>>
  ELSE LET d == CHOOSE i \in 1..Len(s) :
                  s[i] = "." /\ \A j \in 1..(i - 1) : s[j] # "."
       IN <<SubSeq(s, 1, d - 1)>> \o SplitDots(SubSeq(s, d + 1, Len(s)))

IsSegment(seg) ==
  seg # <<>> /\ \A i \in 1..Len(seg) : seg[i] \in WordChars

WellShaped(s) ==
  LET p == SplitDots(s) IN
    Len(p) \in {1, 2} /\ \A i \in 1..Len(p) : IsSegment(p[i])

Bracketed(seg) == <<"[">> \o seg \o <<"]">>

BracketedJoin(p) ==
  IF Len(p) = 1 THEN Bracketed(p[1])
  ELSE Bracketed(p[1]) \o <<".">> \o Bracketed(p[2])

IsBracket(c) == c \in {"[", "]"}
StripBrackets(q) == SelectSeq(q, LAMBDA c : ~IsBracket(c))

\* validate_table_name has returned or raised in the current invocation.
Validated == handler \in TableHandlers /\ pc \notin {"idle", "validate"}

\* C1: for every table reference of the shape name or schema.name,
\* validate_table_name succeeds and returns the segments, each in square
\* brackets, joined by '.', in order; stripping the brackets gives the
\* original segments back.
C1_ValidQuoted ==
  (Validated /\ WellShaped(arg)) =>
    /\ failStage # "validation"
    /\ safe_name = BracketedJoin(SplitDots(arg))
    /\ SplitDots(StripBrackets(safe_name)) = SplitDots(arg)

C1_Witness ==
  /\ pc = "connect"
  /\ arg = <<"a", ".", "Z">>
  /\ safe_name = <<"[", "a", "]", ".", "[", "Z", "]">>

\* C2: every table reference that holds a character outside [A-Za-z0-9_.]
\* (a newline at the end included) or is not of the shape name or
\* schema.name fails validation and yields no quoted identifier.
C2_InvalidRejected ==
  (Validated /\ ~WellShaped(arg)) =>
    /\ failStage = "validation"
    /\ safe_name = None

\* C2, the part the code keeps: a reference that is not of the shape, and
\* is not a reference of the shape followed by one newline, is rejected.
C2_RejectedButTrailingNewline ==
  (/\ Validated
   /\ ~WellShaped(arg)
   /\ ~(/\ arg # <<>>
        /\ arg[Len(arg)] = "\n"
        /\ WellShaped(SubSeq(arg, 1, Len(arg) - 1)))) =>
    /\ failStage = "validation"
    /\ safe_name = None

\* C3: when the table reference fails validation, no connection is ever
\* acquired and no statement is executed or built; a table handler that has
\* called get_connection has validated its reference before.
C3_ValidationBeforeConnection ==
  /\ (handler \in TableHandlers /\ pc # "idle" /\ ~ReMatch(arg)) =>
       /\ connectCalls = 0
       /\ conn = "none"
       /\ executed = <<>>
       /\ safe_name = None
  /\ (handler \in TableHandlers /\ connectCalls > 0) => safe_name # None

C3_Witness ==
  /\ pc = "returned"
  /\ handler = "get_table_count"
  /\ failStage = "validation"
  /\ arg = <<"a", ";">>
  /\ connectCalls = 0

\* C4: whatever step of an invocation fails, the handler ends by returning
\* a value; no failure leaves the handler as an exception.
C4_NeverRaises ==
  /\ pc # "raised"
  /\ pc = "returned" => result # Pending
  /\ pc \notin {"idle", "returned"} => ENABLED Next

C4_Witness ==
  /\ pc = "returned"
  /\ handler = "run_query"
  /\ commitCalls = 1
  /\ exc = DriverError("40001")
  /\ result = [error |-> <<"40001">>]

\* C5: when a handler that acquired a connection returns, the connection
\* has been released (closed).
C5_ReleasedOnReturn ==
  pc = "returned" => conn # "open"

\* The commits that reach the driver in the current invocation: the
\* handler's conn.commit() calls and the one Connection.__exit__ makes.
CommitsAtDriver == commitCalls + (IF endTran = "commit" THEN 1 ELSE 0)

RunQuerySucceeded ==
  pc = "returned" /\ handler = "run_query" /\ failStage = "none"

BothKindsSeen ==
  /\ pc = "returned"
  /\ handler \in TableHandlers
  /\ failStage # "none"
  /\ prior.handler = handler
  /\ prior.stage # failStage

\* C7 as stated: what a table handler returns for a validation failure
\* differs in kind (its keys) from what it returns for an execution failure.
C7_KindsDiffer ==
  BothKindsSeen => prior.keys # DOMAIN result

\* C7 as amended: a table handler returns the same kind of value for both
\* failures: preview_table the same empty value, the other two a dict with
\* the one key 'error', whose message alone tells them apart.
C7_KindsAgree ==
  BothKindsSeen =>
    /\ prior.keys = DOMAIN result
    /\ IF handler = "preview_table"
       THEN result = [columns |-> <<>>, rows |-> <<>>]
       ELSE /\ DOMAIN result = {"error"}
            /\ failStage = "validation" =>
                 result.error = <<"Invalid table name: ">> \o arg
            /\ failStage = "execution" =>
                 result.error # <<"Invalid table name: ">> \o arg

C7_Witness ==
  /\ BothKindsSeen
  /\ handler = "describe_table"
  /\ failStage = "execution"
  /\ prior.stage = "validation"
  /\ result = [error |-> <<"42S02">>]

\* C8: on any failure list_tables returns {tables: []}, preview_table
\* {columns: [], rows: []}, and the other three a dict whose only key is
\* 'error', holding the failure's message; no partial result is returned.
C8_FailurePayload ==
  (pc = "returned" /\ failStage # "none") =>
    CASE handler = "list_tables" -> result = [tables |-> <<>>]
      [] handler = "preview_table" ->
           result = [columns |-> <<>>, rows |-> <<>>]
      [] OTHER -> DOMAIN result = {"error"} /\ result.error = exc.msg

C8_Witness ==
  /\ pc = "returned"
  /\ handler = "get_table_count"
  /\ ret # Pending
  /\ exc = DriverError("08S01")
  /\ result = [error |-> <<"08S01">>]

\* C9 as stated: an execution failure in any handler surfaces as {error: s}
\* with s non-empty.
C9_ErrorDictEverywhere ==
  (pc = "returned" /\ failStage = "execution") =>
    /\ DOMAIN result = {"error"}
    /\ Len(result.error) > 0

\* C9 as amended: an execution failure never leaves the handler; in
\* describe_table, get_table_count and run_query it surfaces as {error: s}
\* with s non-empty, in list_tables and preview_table as the empty value
\* without an 'error' key.
C9_ErrorDictInThree ==
  /\ pc # "raised"
  /\ (pc = "returned" /\ failStage = "execution") =>
       IF handler \in {"describe_table", "get_table_count", "run_query"}
       THEN DOMAIN result = {"error"} /\ Len(result.error) > 0
       ELSE "error" \notin DOMAIN result

C9_Witness ==
  /\ pc = "returned"
  /\ handler = "run_query"
  /\ failStage = "execution"
  /\ executed = <<>>
  /\ exc = DriverError("08001")
  /\ result = [error |-> <<"08001">>]

\* C10: whatever the size of the table, preview_table returns at most 100
\* rows.
C10_PreviewAtMost100 ==
  (pc = "returned" /\ handler = "preview_table") => Len(result.rows) <= 100

C10_Witness ==
  /\ pc = "returned"
  /\ handler = "preview_table"
  /\ failStage = "none"
  /\ cursor.table_rows > 100
  /\ Len(result.rows) = 100

====
